---- MODULE Spec2Model ----
(***************************************************************************)
(* The grpc_gcp balancer (grpcgcp/gcp_balancer.go): the connectivity state *)
(* evaluator, the subConnRef counters, the affinity map and the pool       *)
(* manager's handlers, each handler taken as one step.                     *)
(***************************************************************************)
EXTENDS Integers, Sequences, FiniteSets, TLC

(* ------------------------------ bounds --------------------------------- *)
\* SubConns the host runtime hands out before cc.NewSubConn fails.
MaxConns == 2
\* The same, in the runs that exercise the affinity map.
MaxAffinityConns == 1
\* Affinity keys the picker uses.
NumKeys == 2
\* Cap on |affinityCnt| of one subConnRef.
MaxCnt == 2
\* Streams the callers hold open at once, over all subConnRefs.
MaxStreams == 1
\* RecordTransition calls fed to a stand-alone evaluator.
MaxEvalCalls == 3
\* Distinct address lists the resolver reports.
NumAddrs == 2

(* --------------------------- connectivity ------------------------------ *)
Idle == "Idle"
Connecting == "Connecting"
Ready == "Ready"
TransientFailure == "TransientFailure"
Shutdown == "Shutdown"
\* connectivity.State
States == {Idle, Connecting, Ready, TransientFailure, Shutdown}

(* ------------------------------ uint64 --------------------------------- *)
\* A uint64 is kept as four 16-bit limbs, least significant first, so that
\* the wrap-around of the counters is the machine's.
LimbBase == 65536
NumLimbs == 4

\* uint64(n) for 0 <= n < LimbBase
U64(n) == <<n, 0, 0, 0>>
\* ^y
U64Not(y) == <<(LimbBase - 1) - y[1], (LimbBase - 1) - y[2],
              (LimbBase - 1) - y[3], (LimbBase - 1) - y[4]>>

RECURSIVE U64AddFrom(_, _, _, _)
U64AddFrom(x, y, i, carry) ==
    IF i > NumLimbs THEN <<>>
    ELSE LET s == x[i] + y[i] + carry
         IN  <<s % LimbBase>> \o U64AddFrom(x, y, i + 1, s \div LimbBase)

\* x + y modulo 2^64
U64Add(x, y) == U64AddFrom(x, y, 1, 0)
\* the two's complement of y
U64Neg(y) == U64Add(U64Not(y), U64(1))
\* x - y modulo 2^64
U64Sub(x, y) == U64Add(x, U64Neg(y))
\* x > 0 for an unsigned x
U64Pos(x) == x # U64(0)

(* ---------------------- ConnectivityStateEvaluator --------------------- *)
\* &ConnectivityStateEvaluator{}
NewEvaluator == [numReady |-> U64(0), numConnecting |-> U64(0),
                 numTransientFailure |-> U64(0)]

\* updateVal := uint64(idx): the old state is never subtracted
updateValNoDecr(idx) == U64(idx)

\* updateVal := 2*uint64(idx) - 1
updateVal(idx) == U64Sub(U64Add(U64(idx), U64(idx)), U64(1))

\* one iteration of the loop over {oldState, newState}
UpdateCounter(cse, idx, s) ==
    CASE s = Ready -> [cse EXCEPT !.numReady = U64Add(@, updateVal(idx))]
      [] s = Connecting -> [cse EXCEPT !.numConnecting = U64Add(@, updateVal(idx))]
      [] s = TransientFailure ->
            [cse EXCEPT !.numTransientFailure = U64Add(@, updateVal(idx))]
      [] OTHER -> cse

\* the evaluation with the Ready and Connecting tests swapped
EvaluateConnectingFirst(cse) ==
    IF U64Pos(cse.numConnecting) THEN Connecting
    ELSE IF U64Pos(cse.numReady) THEN Ready
    ELSE TransientFailure

\* the "Evaluate" part of RecordTransition
Evaluate(cse) ==
    IF U64Pos(cse.numReady) THEN Ready
    ELSE IF U64Pos(cse.numConnecting) THEN Connecting
    ELSE TransientFailure

\* RecordTransition(oldState, newState): the evaluator after the call and
\* the state it returns
RecordTransition(cse, oldState, newState) ==
    LET after == UpdateCounter(UpdateCounter(cse, 0, oldState), 1, newState)
    IN  [cse |-> after, ret |-> Evaluate(after)]

(* ------------------------------- state --------------------------------- *)
VARIABLES
    addrs,        \* gb.addrs
    csEvltr,      \* gb.csEvltr
    state,        \* gb.state
    affinityMap,  \* gb.affinityMap: key -> SubConn
    scStates,     \* gb.scStates: SubConn -> connectivity.State
    scRefs,       \* gb.scRefs: SubConn -> *subConnRef
    picker,       \* gb.picker
    refs,         \* the subConnRef objects, by the SubConn they wrap
    nextSc,       \* the SubConn cc.NewSubConn returns next
    connCap,      \* the SubConns cc.NewSubConn hands out before it fails
    openStreams,  \* streams the callers hold open, per subConnRef
    panicked,     \* a nil subConnRef was dereferenced
    notified,     \* a state change of a tracked SubConn has been handled
    calls,        \* the calls into the host runtime made by the last handler
    lastOp,       \* the last handler run and its arguments
    lastPub,      \* the snapshot the host runtime got last (UpdateBalancerState)
    mu,           \* gb.mu: the goroutine that holds it, 0 when free
    threads,      \* the goroutines running a handler: position and locals
    evNet,        \* stand-alone evaluator: transitions into minus out of a state
    evRet,        \* stand-alone evaluator: the last returned state
    evCalls,      \* stand-alone evaluator: RecordTransition calls so far
    evValid       \* stand-alone evaluator: no call took a count below zero

vars == <<addrs, csEvltr, state, affinityMap, scStates, scRefs, picker, refs,
          nextSc, connCap, openStreams, panicked, notified, calls, lastOp,
          lastPub, mu, threads, evNet, evRet, evCalls, evValid>>

balancerVars == <<addrs, state, affinityMap, scStates, scRefs, picker, refs,
                  nextSc, connCap, openStreams, panicked, notified, calls, lastOp,
                  lastPub, mu, threads>>

evalVars == <<evNet, evRet, evCalls, evValid>>

concVars == <<mu, threads>>

\* the SubConns the host runtime can name in a notification
SubConns == 1..connCap
Keys == 1..NumKeys
AddrLists == 1..NumAddrs
\* a nil *subConnRef
NilRef == 0
\* a nil []resolver.Address
NilAddrs == 0

Put(f, k, v) == [x \in DOMAIN f \cup {k} |-> IF x = k THEN v ELSE f[x]]
Delete(f, k) == [x \in DOMAIN f \ {k} |-> f[x]]
EmptyMap == [x \in {} |-> 0]

\* newErrPicker(err)
newErrPicker(err) == [kind |-> "errPicker", err |-> err, readyRefs |-> {}]
\* newGCPPicker(readyRefs, gb)
newGCPPicker(readyRefs) == [kind |-> "gcpPicker", err |-> "nil", readyRefs |-> readyRefs]

\* the picker field of a call that passes no picker
NoPicker == [kind |-> "none", err |-> "nil", readyRefs |-> {}]

\* one call into the host runtime: the method, the SubConn it is made on (0:
\* on the ClientConn), whether gb.mu is held, whether the SubConn is in
\* gb.scRefs at the call, and the state and picker passed
HostCall(fn, sc, locked, tracked, st, pk) ==
    [fn |-> fn, sc |-> sc, locked |-> locked, tracked |-> tracked,
     state |-> st, picker |-> pk]

NoOp == [op |-> "none", sc |-> 0, s |-> "none", oldS |-> "none",
         oldAggr |-> "none", known |-> FALSE, err |-> FALSE, ok |-> FALSE,
         key |-> 0, addrs |-> 0, ref |-> 0, found |-> FALSE]

\* no snapshot was handed to the host runtime yet
NoSnapshot == [state |-> "none", picker |-> NoPicker]

\* goroutines that run handlers side by side
NumThreads == 2
Threads == 1..NumThreads

\* a goroutine that runs no handler: n counts the handlers it has run
IdleThread == [pc |-> "idle", op |-> "none", n |-> 0, sc |-> 0, s |-> "none",
               oldS |-> "none", oldAggr |-> "none", addrs |-> 0, err |-> FALSE,
               ok |-> TRUE]

\* gcpBalancerBuilder.Build
Build ==
    /\ addrs = NilAddrs
    /\ csEvltr = NewEvaluator
    /\ state = Idle
    /\ affinityMap = EmptyMap
    /\ scStates = EmptyMap
    /\ scRefs = EmptyMap
    /\ picker = newErrPicker("ErrNoSubConnAvailable")
    /\ refs = EmptyMap
    /\ nextSc = 1
    /\ openStreams = EmptyMap
    /\ panicked = FALSE
    /\ notified = FALSE
    /\ calls = <<>>
    /\ lastOp = NoOp
    /\ lastPub = NoSnapshot
    /\ mu = 0
    /\ threads = [t \in Threads |-> IdleThread]
    /\ evNet = [s \in {Ready, Connecting, TransientFailure} |-> 0]
    /\ evRet = "none"
    /\ evCalls = 0
    /\ evValid = TRUE

Init == Build /\ connCap = MaxConns

InitAffinity == Build /\ connCap = MaxAffinityConns


(* ------------------------------ subConnRef ----------------------------- *)
\* &subConnRef{subConn: sc}
NewRef(sc) == [subConn |-> sc, affinityCnt |-> 0, streamsCnt |-> 0]
\* ref.affinityIncr()
affinityIncr(rs, r) == [rs EXCEPT ![r].affinityCnt = @ + 1]
\* ref.affinityDecr()
affinityDecr(rs, r) == [rs EXCEPT ![r].affinityCnt = @ - 1]
\* ref.streamsIncr()
streamsIncr(rs, r) == [rs EXCEPT ![r].streamsCnt = @ + 1]
\* ref.streamsDecr()
streamsDecr(rs, r) == [rs EXCEPT ![r].streamsCnt = @ - 1]

(* ------------------------------ newSubConn ----------------------------- *)
\* the scan of newSubConn left out
AnyConnectingNever(scSt) == FALSE

\* the scan of gb.scStates for a Connecting SubConn
AnyConnecting(scSt) == \E sc \in DOMAIN scSt : scSt[sc] = Connecting

\* newSubConn(): ok is whether cc.NewSubConn succeeds
newSubConn(ok) ==
    IF AnyConnecting(scStates)
    THEN /\ calls' = <<>>
         /\ UNCHANGED <<scRefs, scStates, refs, nextSc, openStreams>>
    ELSE IF ~ok
    THEN /\ calls' = <<HostCall("NewSubConn", 0, TRUE, FALSE, "none", NoPicker)>>
         /\ UNCHANGED <<scRefs, scStates, refs, nextSc, openStreams>>
    ELSE LET sc == nextSc
         IN  /\ nextSc' = nextSc + 1
             /\ refs' = Put(refs, sc, NewRef(sc))
             /\ openStreams' = Put(openStreams, sc, 0)
             /\ scRefs' = Put(scRefs, sc, sc)
             /\ scStates' = Put(scStates, sc, Idle)
             /\ calls' = <<HostCall("NewSubConn", 0, TRUE, FALSE, "none", NoPicker),
                           HostCall("Connect", sc, TRUE, sc \in DOMAIN scRefs',
                                    "none", NoPicker)>>

\* what cc.NewSubConn can answer: it fails once connCap SubConns are out
NewSubConnResults == IF nextSc <= connCap THEN BOOLEAN ELSE {FALSE}

\* a call of newSubConn() from the picker
NewSubConnCall ==
    /\ ~panicked
    /\ \E ok \in NewSubConnResults :
          /\ newSubConn(ok)
          /\ lastOp' = [NoOp EXCEPT !.op = "newSubConn", !.ok = ok]
    /\ UNCHANGED <<addrs, csEvltr, state, affinityMap, picker, panicked, notified,
                   connCap>>
    /\ UNCHANGED <<evalVars, concVars, lastPub>>

(* -------------------------- HandleResolvedAddrs ------------------------ *)
\* the orders in which a range over the map can visit the SubConns of S
Orders(S) == {f \in [1..Cardinality(S) -> S] : \A i, j \in DOMAIN f : f[i] = f[j] => i = j}

RECURSIVE UpdateCalls(_, _)
\* the calls of the loop over gb.scRefs, visited in the order ord
UpdateCalls(ord, i) ==
    IF i > Len(ord) THEN <<>>
    ELSE <<HostCall("UpdateAddresses", ord[i], FALSE, TRUE, "none", NoPicker),
           HostCall("Connect", ord[i], FALSE, TRUE, "none", NoPicker)>>
         \o UpdateCalls(ord, i + 1)

\* HandleResolvedAddrs(a, err) that never creates the first SubConn
HandleResolvedAddrsNoCreate(a, err, ok) ==
    IF err
    THEN /\ calls' = <<>>
         /\ UNCHANGED <<addrs, scRefs, scStates, refs, nextSc, openStreams>>
    ELSE /\ addrs' = a
         /\ \E ord \in Orders(DOMAIN scRefs) : calls' = UpdateCalls(ord, 1)
         /\ UNCHANGED <<scRefs, scStates, refs, nextSc, openStreams>>

\* HandleResolvedAddrs(a, err) with the error test left out
HandleResolvedAddrsNoErrTest(a, err, ok) ==
    /\ addrs' = a
    /\ IF DOMAIN scRefs = {}
       THEN newSubConn(ok)
       ELSE /\ \E ord \in Orders(DOMAIN scRefs) : calls' = UpdateCalls(ord, 1)
            /\ UNCHANGED <<scRefs, scStates, refs, nextSc, openStreams>>

\* HandleResolvedAddrs(a, err): err is whether the error is non-nil
HandleResolvedAddrs(a, err, ok) ==
    IF err
    THEN /\ calls' = <<>>
         /\ UNCHANGED <<addrs, scRefs, scStates, refs, nextSc, openStreams>>
    ELSE /\ addrs' = a
         /\ IF DOMAIN scRefs = {}
            THEN newSubConn(ok)
            ELSE /\ \E ord \in Orders(DOMAIN scRefs) : calls' = UpdateCalls(ord, 1)
                 /\ UNCHANGED <<scRefs, scStates, refs, nextSc, openStreams>>

\* an address-resolution event
ResolvedAddrs ==
    /\ ~panicked
    /\ \E a \in AddrLists, err \in BOOLEAN, ok \in NewSubConnResults :
          /\ HandleResolvedAddrs(a, err, ok)
          /\ lastOp' = [NoOp EXCEPT !.op = "HandleResolvedAddrs", !.addrs = a,
                                    !.err = err, !.ok = ok]
    /\ UNCHANGED <<csEvltr, state, affinityMap, picker, panicked, notified, connCap>>
    /\ UNCHANGED <<evalVars, concVars, lastPub>>

(* ---------------------------- regeneratePicker ------------------------- *)
\* gb.scRefs[sc]
RefOf(scRf, sc) == IF sc \in DOMAIN scRf THEN scRf[sc] ELSE NilRef

\* regeneratePicker() without the TransientFailure case
regeneratePickerNoErr(st, scSt, scRf) ==
    newGCPPicker({RefOf(scRf, sc) : sc \in {x \in DOMAIN scSt : scSt[x] = Ready}})

\* regeneratePicker(): the picker built from gb.state, gb.scStates, gb.scRefs
regeneratePicker(st, scSt, scRf) ==
    IF st = TransientFailure
    THEN newErrPicker("ErrTransientFailure")
    ELSE newGCPPicker({RefOf(scRf, sc) : sc \in {x \in DOMAIN scSt : scSt[x] = Ready}})

(* ------------------------ HandleSubConnStateChange --------------------- *)
\* the Shutdown case without "delete(gb.scStates, sc)"
scStatesAfterNoDelete(scSt, sc, s) == Put(scSt, sc, s)

\* gb.scStates after "gb.scStates[sc] = s" and the switch
scStatesAfter(scSt, sc, s) == IF s = Shutdown THEN Delete(scSt, sc) ELSE Put(scSt, sc, s)

\* the Shutdown case without "delete(gb.scRefs, sc)"
scRefsAfterNoDelete(scRf, sc, s) == scRf

\* gb.scRefs after the switch
scRefsAfter(scRf, sc, s) == IF s = Shutdown THEN Delete(scRf, sc) ELSE scRf

\* the test with its second disjunct left out
ShouldRegenerateReadyOnly(oldS, s, oldAggrState, newAggrState) ==
    (s = Ready) # (oldS = Ready)

\* the test that guards regeneratePicker and UpdateBalancerState
ShouldRegenerate(oldS, s, oldAggrState, newAggrState) ==
    \/ (s = Ready) # (oldS = Ready)
    \/ (newAggrState = TransientFailure) # (oldAggrState = TransientFailure)

\* the "ok" test taken as always passing
KnownAlways(scSt, sc) == TRUE

\* ok of "oldS, ok := gb.scStates[sc]"
Known(scSt, sc) == sc \in DOMAIN scSt

\* oldS of "oldS, ok := gb.scStates[sc]": the zero value when sc is no key
StateOf(scSt, sc) == IF sc \in DOMAIN scSt THEN scSt[sc] ELSE Idle

\* the switch with sc.Connect() under TransientFailure as well
ConnectOnIdleOrFailure(scRf, sc, s) ==
    IF s \in {Idle, TransientFailure}
    THEN <<HostCall("Connect", sc, TRUE, sc \in DOMAIN scRf, "none", NoPicker)>>
    ELSE <<>>

\* the host calls of the switch: sc.Connect() in the Idle case, under gb.mu
ConnectOnIdle(scRf, sc, s) ==
    IF s = Idle
    THEN <<HostCall("Connect", sc, TRUE, sc \in DOMAIN scRf, "none", NoPicker)>>
    ELSE <<>>

\* HandleSubConnStateChange(sc, s)
HandleSubConnStateChange(sc, s) ==
    IF ~Known(scStates, sc)
    THEN /\ calls' = <<>>
         /\ lastOp' = [NoOp EXCEPT !.op = "HandleSubConnStateChange", !.sc = sc, !.s = s]
         /\ UNCHANGED <<scStates, scRefs, csEvltr, state, picker, notified, lastPub>>
    ELSE LET oldS == StateOf(scStates, sc)
             r == RecordTransition(csEvltr, oldS, s)
             oldAggrState == state
             connect == ConnectOnIdle(scRefs, sc, s)
         IN  /\ scStates' = scStatesAfter(scStates, sc, s)
             /\ scRefs' = scRefsAfter(scRefs, sc, s)
             /\ csEvltr' = r.cse
             /\ state' = r.ret
             /\ notified' = TRUE
             /\ lastOp' = [NoOp EXCEPT !.op = "HandleSubConnStateChange", !.sc = sc,
                                       !.s = s, !.oldS = oldS, !.known = TRUE,
                                       !.oldAggr = oldAggrState]
             /\ IF ShouldRegenerate(oldS, s, oldAggrState, state')
                THEN /\ picker' = regeneratePicker(state', scStates', scRefs')
                     /\ calls' = connect \o
                            <<HostCall("UpdateBalancerState", 0, FALSE, FALSE,
                                       state', picker')>>
                     /\ lastPub' = [state |-> state', picker |-> picker']
                ELSE /\ picker' = picker
                     /\ calls' = connect
                     /\ lastPub' = lastPub

\* a state-change notification from the host runtime
SubConnStateChange ==
    /\ ~panicked
    /\ \E sc \in SubConns, s \in States : HandleSubConnStateChange(sc, s)
    /\ UNCHANGED <<addrs, affinityMap, refs, nextSc, connCap, openStreams, panicked>>
    /\ UNCHANGED <<evalVars, concVars>>

(* ----------------------------- affinity map --------------------------- *)
\* bindSubConn(bindKey, sc) that stores sc under the key even if the key is bound
bindSubConnRepoint(bindKey, sc) ==
    /\ affinityMap' = Put(affinityMap, bindKey, sc)
    /\ IF RefOf(scRefs, sc) = NilRef
       THEN /\ panicked' = TRUE
            /\ refs' = refs
       ELSE /\ panicked' = panicked
            /\ refs' = affinityIncr(refs, scRefs[sc])

\* bindSubConn(bindKey, sc): gb.scRefs[sc] is nil for a SubConn that is not
\* tracked, and affinityIncr on it panics, after the key was inserted
bindSubConn(bindKey, sc) ==
    /\ affinityMap' = IF bindKey \in DOMAIN affinityMap
                      THEN affinityMap
                      ELSE Put(affinityMap, bindKey, sc)
    /\ IF RefOf(scRefs, sc) = NilRef
       THEN /\ panicked' = TRUE
            /\ refs' = refs
       ELSE /\ panicked' = panicked
            /\ refs' = affinityIncr(refs, scRefs[sc])

\* unbindSubConn(boundKey): gb.scRefs[boundSC] is nil for a SubConn removed
\* after Shutdown, and affinityDecr on it panics
unbindSubConn(boundKey) ==
    IF boundKey \in DOMAIN affinityMap
    THEN LET boundSC == affinityMap[boundKey]
         IN  IF RefOf(scRefs, boundSC) = NilRef
             THEN /\ panicked' = TRUE
                  /\ UNCHANGED <<refs, affinityMap>>
             ELSE /\ panicked' = panicked
                  /\ refs' = affinityDecr(refs, scRefs[boundSC])
                  /\ affinityMap' = IF refs'[scRefs[boundSC]].affinityCnt <= 0
                                    THEN Delete(affinityMap, boundKey)
                                    ELSE affinityMap
    ELSE UNCHANGED <<refs, affinityMap, panicked>>

\* getReadySubConnRef(boundKey) without the test of the recorded state
getReadySubConnRefNoReadyTest(boundKey) ==
    IF boundKey \in DOMAIN affinityMap
    THEN [ref |-> RefOf(scRefs, affinityMap[boundKey]), found |-> TRUE]
    ELSE [ref |-> NilRef, found |-> FALSE]

\* getReadySubConnRef(boundKey): the subConnRef and the bool it returns
getReadySubConnRef(boundKey) ==
    IF boundKey \in DOMAIN affinityMap
    THEN LET sc == affinityMap[boundKey]
         IN  IF StateOf(scStates, sc) # Ready
             THEN [ref |-> NilRef, found |-> TRUE]
             ELSE [ref |-> RefOf(scRefs, sc), found |-> TRUE]
    ELSE [ref |-> NilRef, found |-> FALSE]

\* the picker looks a key up
GetReadySubConnRefCall ==
    /\ ~panicked
    /\ \E boundKey \in Keys :
          lastOp' = [NoOp EXCEPT !.op = "getReadySubConnRef", !.key = boundKey,
                                !.ref = getReadySubConnRef(boundKey).ref,
                                !.found = getReadySubConnRef(boundKey).found]
    /\ calls' = <<>>
    /\ UNCHANGED <<addrs, csEvltr, state, affinityMap, scStates, scRefs, picker, refs,
                   nextSc, connCap, openStreams, panicked, notified>>
    /\ UNCHANGED <<evalVars, concVars, lastPub>>

\* the picker binds a key to a SubConn it was handed earlier
BindCall ==
    /\ ~panicked
    /\ \E bindKey \in Keys, sc \in DOMAIN refs :
          /\ sc \in DOMAIN scRefs => refs[scRefs[sc]].affinityCnt < MaxCnt
          /\ bindSubConn(bindKey, sc)
          /\ lastOp' = [NoOp EXCEPT !.op = "bindSubConn", !.key = bindKey, !.sc = sc]
    /\ calls' = <<>>
    /\ UNCHANGED <<addrs, csEvltr, state, scStates, scRefs, picker, nextSc,
                   connCap, openStreams, notified>>
    /\ UNCHANGED <<evalVars, concVars, lastPub>>

\* the picker unbinds a key
UnbindCall ==
    /\ ~panicked
    /\ \E boundKey \in Keys :
          /\ (boundKey \in DOMAIN affinityMap /\ affinityMap[boundKey] \in DOMAIN scRefs)
                => refs[scRefs[affinityMap[boundKey]]].affinityCnt > -MaxCnt
          /\ unbindSubConn(boundKey)
          /\ lastOp' = [NoOp EXCEPT !.op = "unbindSubConn", !.key = boundKey]
    /\ calls' = <<>>
    /\ UNCHANGED <<addrs, csEvltr, state, scStates, scRefs, picker, nextSc,
                   connCap, openStreams, notified>>
    /\ UNCHANGED <<evalVars, concVars, lastPub>>

RECURSIVE SumOver(_, _)
SumOver(f, S) ==
    IF S = {} THEN 0
    ELSE LET x == CHOOSE y \in S : TRUE IN f[x] + SumOver(f, S \ {x})

\* a caller opens a stream on a subConnRef it was handed
StreamOpen ==
    /\ ~panicked
    /\ SumOver(openStreams, DOMAIN openStreams) < MaxStreams
    /\ \E r \in DOMAIN refs :
          /\ refs' = streamsIncr(refs, r)
          /\ openStreams' = [openStreams EXCEPT ![r] = @ + 1]
          /\ lastOp' = [NoOp EXCEPT !.op = "streamsIncr", !.sc = r]
    /\ calls' = <<>>
    /\ UNCHANGED <<addrs, csEvltr, state, affinityMap, scStates, scRefs, picker,
                   nextSc, connCap, panicked, notified>>
    /\ UNCHANGED <<evalVars, concVars, lastPub>>

\* a caller closes a stream it has open
StreamClose ==
    /\ ~panicked
    /\ \E r \in DOMAIN refs :
          /\ openStreams[r] > 0
          /\ refs' = streamsDecr(refs, r)
          /\ openStreams' = [openStreams EXCEPT ![r] = @ - 1]
          /\ lastOp' = [NoOp EXCEPT !.op = "streamsDecr", !.sc = r]
    /\ calls' = <<>>
    /\ UNCHANGED <<addrs, csEvltr, state, affinityMap, scStates, scRefs, picker,
                   nextSc, connCap, panicked, notified>>
    /\ UNCHANGED <<evalVars, concVars, lastPub>>

\* the states the host runtime reports in the affinity runs
AffinityStates == {Ready, Shutdown}

\* a state-change notification of a SubConn becoming Ready or shut down
SubConnReadyOrShutdown ==
    /\ ~panicked
    /\ \E sc \in SubConns, s \in AffinityStates : HandleSubConnStateChange(sc, s)
    /\ UNCHANGED <<addrs, affinityMap, refs, nextSc, connCap, openStreams, panicked>>
    /\ UNCHANGED <<evalVars, concVars>>

Next == ResolvedAddrs \/ NewSubConnCall \/ SubConnStateChange

Spec == Init /\ [][Next]_vars

\* the affinity map and the counters under the picker's calls
NextAffinity ==
    \/ NewSubConnCall
    \/ SubConnReadyOrShutdown
    \/ BindCall
    \/ UnbindCall
    \/ StreamOpen
    \/ StreamClose

SpecAffinity == InitAffinity /\ [][NextAffinity]_vars

\* the lookups of the picker among binds, unbinds and notifications
NextLookup ==
    \/ NewSubConnCall
    \/ SubConnReadyOrShutdown
    \/ BindCall
    \/ UnbindCall
    \/ GetReadySubConnRefCall

SpecLookup == InitAffinity /\ [][NextLookup]_vars

\* a Shutdown notification of a tracked SubConn
SubConnShutdown ==
    /\ ~panicked
    /\ \E sc \in DOMAIN scStates : HandleSubConnStateChange(sc, Shutdown)
    /\ UNCHANGED <<addrs, affinityMap, refs, nextSc, connCap, openStreams, panicked>>
    /\ UNCHANGED <<evalVars, concVars>>

\* the picker binds a key that is not bound yet to a tracked SubConn
BindFreshKey ==
    /\ ~panicked
    /\ \E bindKey \in Keys \ DOMAIN affinityMap, sc \in DOMAIN scRefs :
          /\ bindSubConn(bindKey, sc)
          /\ lastOp' = [NoOp EXCEPT !.op = "bindSubConn", !.key = bindKey, !.sc = sc]
    /\ calls' = <<>>
    /\ UNCHANGED <<addrs, csEvltr, state, scStates, scRefs, picker, nextSc,
                   connCap, openStreams, notified>>
    /\ UNCHANGED <<evalVars, concVars, lastPub>>

\* Ready and Shutdown notifications over several connections with keys bound
NextShutdown ==
    \/ NewSubConnCall
    \/ SubConnReadyOrShutdown
    \/ BindFreshKey

SpecShutdown == Init /\ [][NextShutdown]_vars

\* binds and unbinds over several connections, some of them shut down
NextBinding ==
    \/ NewSubConnCall
    \/ SubConnShutdown
    \/ BindCall
    \/ UnbindCall

SpecBinding == Init /\ [][NextBinding]_vars

(* -------------------------- concurrent handlers ------------------------ *)
\* The handlers run by several goroutines, one statement group at a step: a
\* section under gb.mu is one step after the step that takes the lock, and
\* every statement after the Unlock of line 303 is a step of its own.

\* handlers a goroutine runs
MaxHandlers == 2

\* goroutine t goes on to position pc
Goto(t, pc) == [threads EXCEPT ![t].pc = pc]

\* HandleResolvedAddrs, lines 161-182 but for the body of newSubConn
HRAEnter(t) ==
    /\ threads[t].pc = "idle"
    /\ threads[t].n < MaxHandlers
    /\ \E a \in AddrLists, err \in BOOLEAN :
          LET entered == [threads[t] EXCEPT !.op = "HandleResolvedAddrs",
                                            !.n = @ + 1, !.addrs = a, !.err = err]
          IN  IF err
              THEN /\ threads' = [threads EXCEPT ![t] = entered]
                   /\ calls' = <<>>
                   /\ addrs' = addrs
              ELSE /\ addrs' = a
                   /\ IF DOMAIN scRefs = {}
                      THEN /\ threads' = [threads EXCEPT ![t] =
                                             [entered EXCEPT !.pc = "newSubConn"]]
                           /\ calls' = <<>>
                      ELSE /\ threads' = [threads EXCEPT ![t] = entered]
                           /\ \E ord \in Orders(DOMAIN scRefs) :
                                 calls' = UpdateCalls(ord, 1)
    /\ lastOp' = [NoOp EXCEPT !.op = "HandleResolvedAddrs"]
    /\ UNCHANGED <<csEvltr, state, affinityMap, scStates, scRefs, picker, refs,
                   nextSc, connCap, openStreams, panicked, notified, lastPub, mu>>
    /\ UNCHANGED evalVars

\* gb.mu.Lock() of newSubConn, line 193
NewSubConnLock(t) ==
    /\ threads[t].pc = "newSubConn"
    /\ mu = 0
    /\ mu' = t
    /\ threads' = Goto(t, "newSubConnLocked")
    /\ calls' = <<>>
    /\ lastOp' = [NoOp EXCEPT !.op = "newSubConn"]
    /\ UNCHANGED <<addrs, csEvltr, state, affinityMap, scStates, scRefs, picker,
                   refs, nextSc, connCap, openStreams, panicked, notified, lastPub>>
    /\ UNCHANGED evalVars

\* newSubConn under the lock, lines 196-216, and the deferred Unlock
NewSubConnLocked(t) ==
    /\ threads[t].pc = "newSubConnLocked"
    /\ \E ok \in NewSubConnResults :
          /\ newSubConn(ok)
          /\ threads' = [threads EXCEPT ![t].pc = "idle", ![t].ok = ok]
    /\ mu' = 0
    /\ lastOp' = [NoOp EXCEPT !.op = "newSubConn"]
    /\ UNCHANGED <<addrs, csEvltr, state, affinityMap, picker, connCap, panicked,
                   notified, lastPub>>
    /\ UNCHANGED evalVars

\* HandleSubConnStateChange(sc, s) up to gb.mu.Lock(), lines 281-284
HSCEnter(t) ==
    /\ threads[t].pc = "idle"
    /\ threads[t].n < MaxHandlers
    /\ mu = 0
    /\ mu' = t
    /\ \E sc \in SubConns, s \in States :
          threads' = [threads EXCEPT ![t] =
                         [@ EXCEPT !.pc = "stateChangeLocked", !.n = @ + 1, !.sc = sc,
                                   !.op = "HandleSubConnStateChange", !.s = s]]
    /\ calls' = <<>>
    /\ lastOp' = [NoOp EXCEPT !.op = "HandleSubConnStateChange"]
    /\ UNCHANGED <<addrs, csEvltr, state, affinityMap, scStates, scRefs, picker,
                   refs, nextSc, connCap, openStreams, panicked, notified, lastPub>>
    /\ UNCHANGED evalVars

\* the section under the lock, lines 285-303
HSCLocked(t) ==
    /\ threads[t].pc = "stateChangeLocked"
    /\ LET sc == threads[t].sc
           s == threads[t].s
       IN  IF ~Known(scStates, sc)
           THEN /\ threads' = Goto(t, "idle")
                /\ calls' = <<>>
                /\ UNCHANGED <<scStates, scRefs, notified>>
           ELSE /\ threads' = [threads EXCEPT ![t].pc = "oldAggrState",
                                              ![t].oldS = StateOf(scStates, sc)]
                /\ scStates' = scStatesAfter(scStates, sc, s)
                /\ scRefs' = scRefsAfter(scRefs, sc, s)
                /\ calls' = ConnectOnIdle(scRefs, sc, s)
                /\ notified' = TRUE
    /\ mu' = 0
    /\ lastOp' = [NoOp EXCEPT !.op = "HandleSubConnStateChange"]
    /\ UNCHANGED <<addrs, csEvltr, state, affinityMap, picker, refs, nextSc,
                   connCap, openStreams, panicked, lastPub>>
    /\ UNCHANGED evalVars

\* oldAggrState := gb.state, line 305
HSCOldAggrState(t) ==
    /\ threads[t].pc = "oldAggrState"
    /\ threads' = [threads EXCEPT ![t].pc = "recordTransition", ![t].oldAggr = state]
    /\ calls' = <<>>
    /\ lastOp' = [NoOp EXCEPT !.op = "HandleSubConnStateChange"]
    /\ UNCHANGED <<addrs, csEvltr, state, affinityMap, scStates, scRefs, picker,
                   refs, nextSc, connCap, openStreams, panicked, notified, lastPub, mu>>
    /\ UNCHANGED evalVars

\* gb.state = gb.csEvltr.RecordTransition(oldS, s), line 306
HSCRecordTransition(t) ==
    /\ threads[t].pc = "recordTransition"
    /\ LET rt == RecordTransition(csEvltr, threads[t].oldS, threads[t].s)
       IN  /\ csEvltr' = rt.cse
           /\ state' = rt.ret
    /\ threads' = Goto(t, "test")
    /\ calls' = <<>>
    /\ lastOp' = [NoOp EXCEPT !.op = "HandleSubConnStateChange"]
    /\ UNCHANGED <<addrs, affinityMap, scStates, scRefs, picker, refs, nextSc,
                   connCap, openStreams, panicked, notified, lastPub, mu>>
    /\ UNCHANGED evalVars

\* the test of lines 313-314, which reads gb.state again
HSCTest(t) ==
    /\ threads[t].pc = "test"
    /\ threads' = IF ShouldRegenerate(threads[t].oldS, threads[t].s,
                                      threads[t].oldAggr, state)
                  THEN Goto(t, "regeneratePicker")
                  ELSE Goto(t, "idle")
    /\ calls' = <<>>
    /\ lastOp' = [NoOp EXCEPT !.op = "HandleSubConnStateChange"]
    /\ UNCHANGED <<addrs, csEvltr, state, affinityMap, scStates, scRefs, picker,
                   refs, nextSc, connCap, openStreams, panicked, notified, lastPub, mu>>
    /\ UNCHANGED evalVars

\* gb.regeneratePicker(), line 315
HSCRegeneratePicker(t) ==
    /\ threads[t].pc = "regeneratePicker"
    /\ picker' = regeneratePicker(state, scStates, scRefs)
    /\ threads' = Goto(t, "updateBalancerState")
    /\ calls' = <<>>
    /\ lastOp' = [NoOp EXCEPT !.op = "HandleSubConnStateChange"]
    /\ UNCHANGED <<addrs, csEvltr, state, affinityMap, scStates, scRefs, refs,
                   nextSc, connCap, openStreams, panicked, notified, lastPub, mu>>
    /\ UNCHANGED evalVars

\* gb.cc.UpdateBalancerState(gb.state, gb.picker), line 316
HSCUpdateBalancerState(t) ==
    /\ threads[t].pc = "updateBalancerState"
    /\ calls' = <<HostCall("UpdateBalancerState", 0, FALSE, FALSE, state, picker)>>
    /\ lastPub' = [state |-> state, picker |-> picker]
    /\ threads' = Goto(t, "idle")
    /\ lastOp' = [NoOp EXCEPT !.op = "HandleSubConnStateChange"]
    /\ UNCHANGED <<addrs, csEvltr, state, affinityMap, scStates, scRefs, picker,
                   refs, nextSc, connCap, openStreams, panicked, notified, mu>>
    /\ UNCHANGED evalVars

NextConcurrent ==
    \E t \in Threads :
        \/ HRAEnter(t)
        \/ NewSubConnLock(t)
        \/ NewSubConnLocked(t)
        \/ HSCEnter(t)
        \/ HSCLocked(t)
        \/ HSCOldAggrState(t)
        \/ HSCRecordTransition(t)
        \/ HSCTest(t)
        \/ HSCRegeneratePicker(t)
        \/ HSCUpdateBalancerState(t)

SpecConcurrent == Init /\ [][NextConcurrent]_vars

(* ----------------------- stand-alone evaluator ------------------------- *)
Counted == {Ready, Connecting, TransientFailure}

NetAfter(net, oldState, newState) ==
    [s \in Counted |-> net[s] - (IF s = oldState THEN 1 ELSE 0)
                              + (IF s = newState THEN 1 ELSE 0)]

\* one RecordTransition(oldState, newState) on an evaluator of its own
EvalRecord(oldState, newState) ==
    /\ evCalls < MaxEvalCalls
    /\ LET r == RecordTransition(csEvltr, oldState, newState)
       IN  /\ csEvltr' = r.cse
           /\ evRet' = r.ret
    /\ evNet' = NetAfter(evNet, oldState, newState)
    /\ evValid' = (evValid /\ (oldState \in Counted => evNet[oldState] > 0))
    /\ evCalls' = evCalls + 1
    /\ UNCHANGED balancerVars

NextEval == \E oldState \in States, newState \in States : EvalRecord(oldState, newState)

SpecEval == Init /\ [][NextEval]_vars


(* ======================================================================= *)
(* Properties                                                              *)
(* ======================================================================= *)

\* the aggregate of net counts, a count standing for "some connection"
\* when it is positive
AggregateOfPositive(net) ==
    IF net[Ready] > 0 THEN Ready
    ELSE IF net[Connecting] > 0 THEN Connecting
    ELSE TransientFailure

\* the same with a count standing for "some connection" when it is not zero
AggregateOfNonZero(net) ==
    IF net[Ready] # 0 THEN Ready
    ELSE IF net[Connecting] # 0 THEN Connecting
    ELSE TransientFailure

\* the uint64 that holds the integer n, for |n| < LimbBase
AsU64(n) == IF n >= 0 THEN U64(n) ELSE U64Neg(U64(-n))

\* C1 as stated: after every RecordTransition call on a fresh evaluator the
\* returned state is Ready iff transitions into Ready minus transitions out of
\* Ready is positive, else Connecting iff that difference for Connecting is
\* positive, else TransientFailure.
C1_ReturnsAggregateOfPositive ==
    evCalls > 0 => evRet = AggregateOfPositive(evNet)

\* C1 amended: each counter is its net count modulo 2^64 (Idle and Shutdown
\* touch none), the returned state is Ready iff the net Ready count is not
\* zero, else Connecting iff the net Connecting count is not zero, else
\* TransientFailure; and when no call subtracted from a count that was zero,
\* "not zero" is "positive", as C1 states it.
C1_ReturnsAggregateModulo ==
    /\ csEvltr.numReady = AsU64(evNet[Ready])
    /\ csEvltr.numConnecting = AsU64(evNet[Connecting])
    /\ csEvltr.numTransientFailure = AsU64(evNet[TransientFailure])
    /\ evCalls > 0 => evRet = AggregateOfNonZero(evNet)
    /\ (evCalls > 0 /\ evValid) => evRet = AggregateOfPositive(evNet)

\* C1 witness: after two or more well-formed calls Connecting is returned
\* while a connection is counted in TransientFailure.
C1_Witness ==
    /\ evCalls >= 2
    /\ evValid
    /\ evRet = Connecting
    /\ evNet[TransientFailure] > 0

\* the tracked SubConns whose recorded state is s
TrackedIn(s) == {sc \in DOMAIN scStates : scStates[sc] = s}

\* C2: no subConnRef has a negative affinityCnt or streamsCnt.
C2_CountsNeverNegative ==
    \A r \in DOMAIN refs : refs[r].affinityCnt >= 0 /\ refs[r].streamsCnt >= 0

\* C3: every key in affinityMap is mapped to a connection whose affinityCnt
\* is strictly positive (the direction of the equivalence that speaks of the
\* keys present; a connection removed after Shutdown has no count to read).
C3_PresentKeyHasPositiveCount ==
    \A k \in DOMAIN affinityMap :
        affinityMap[k] \in DOMAIN scRefs => refs[scRefs[affinityMap[k]]].affinityCnt > 0

\* C4 as stated: at most one tracked connection is Connecting.
C4_AtMostOneConnecting == Cardinality(TrackedIn(Connecting)) <= 1

\* C4 amended: a step taken while some tracked connection is Connecting
\* creates no connection: no SubConn is handed out, none is added to scRefs
\* or scStates, and cc.NewSubConn is not called.
C4_NoCreationWhileConnecting ==
    [][TrackedIn(Connecting) # {} =>
          /\ nextSc' = nextSc
          /\ DOMAIN scRefs' \subseteq DOMAIN scRefs
          /\ DOMAIN scStates' \subseteq DOMAIN scStates
          /\ \A i \in DOMAIN calls' : calls'[i].fn # "NewSubConn"]_vars

\* C4 witness: newSubConn was called with a connection Connecting, while the
\* host would have granted a SubConn, and it returned without any call.
C4_Witness ==
    /\ lastOp.op = "newSubConn"
    /\ lastOp.ok
    /\ TrackedIn(Connecting) # {}
    /\ calls = <<>>

\* C5: scStates and scRefs have the same key set.
C5_SameKeySet == DOMAIN scStates = DOMAIN scRefs

\* C5 witness: a Shutdown notification removed a tracked connection while
\* another connection stays tracked.
C5_Witness ==
    /\ lastOp.op = "HandleSubConnStateChange"
    /\ lastOp.known
    /\ lastOp.s = Shutdown
    /\ lastOp.sc \notin DOMAIN scRefs
    /\ DOMAIN scRefs # {}

\* the aggregate of the tracked connections' states
AggregateOfTracked ==
    IF TrackedIn(Ready) # {} THEN Ready
    ELSE IF TrackedIn(Connecting) # {} THEN Connecting
    ELSE TransientFailure

\* C6 as stated: gb.state is the aggregate of the tracked connections in
\* every reachable state, the initial one included.
C6_StateIsAggregateAlways == state = AggregateOfTracked

\* C6 amended: gb.state is Idle until a state change of a tracked connection
\* has been handled, and the aggregate of the tracked connections from then on.
C6_StateIsAggregateOnceNotified ==
    IF notified THEN state = AggregateOfTracked ELSE state = Idle

\* C6 witness: after notifications, gb.state is Connecting with one
\* connection Connecting and another in TransientFailure.
C6_Witness ==
    /\ notified
    /\ state = Connecting
    /\ TrackedIn(TransientFailure) # {}
    /\ TrackedIn(Connecting) # {}

\* the UpdateBalancerState calls among the calls cs
Published(cs) == {i \in DOMAIN cs : cs[i].fn = "UpdateBalancerState"}

\* C7: a state change of a tracked connection publishes (gb.state, gb.picker)
\* exactly when the connection's Ready-ness or the aggregate's
\* TransientFailure-ness differs across it; otherwise nothing is published
\* and gb.picker is left as it was.
C7_PublishesIffFlipped ==
    [][(lastOp'.op = "HandleSubConnStateChange" /\ lastOp'.sc \in DOMAIN scStates) =>
          LET flipped == \/ (lastOp'.s = Ready) # (scStates[lastOp'.sc] = Ready)
                         \/ (state' = TransientFailure) # (state = TransientFailure)
          IN  /\ flipped <=> Published(calls') # {}
              /\ flipped =>
                    /\ Cardinality(Published(calls')) = 1
                    /\ calls'[Len(calls')].fn = "UpdateBalancerState"
                    /\ calls'[Len(calls')].state = state'
                    /\ calls'[Len(calls')].picker = picker'
              /\ ~flipped => picker' = picker]_vars

\* C7 witness: a change between two not-Ready states that took the aggregate
\* into TransientFailure was published.
C7_Witness ==
    /\ lastOp.op = "HandleSubConnStateChange"
    /\ lastOp.known
    /\ lastOp.oldS # Ready
    /\ lastOp.s # Ready
    /\ lastOp.oldAggr # TransientFailure
    /\ state = TransientFailure
    /\ Published(calls) # {}

\* the subConnRefs of the tracked connections recorded Ready
ReadyRefs == {r \in DOMAIN refs : refs[r].subConn \in TrackedIn(Ready)}

\* C8: every published snapshot carries the transient-failure picker when
\* its state is TransientFailure, and otherwise a picker whose ready set is
\* the subConnRefs of the connections tracked as Ready.
C8_PublishedPickerMatches ==
    \A i \in Published(calls) :
        IF calls[i].state = TransientFailure
        THEN /\ calls[i].picker.kind = "errPicker"
             /\ calls[i].picker.err = "ErrTransientFailure"
        ELSE /\ calls[i].picker.kind = "gcpPicker"
             /\ calls[i].picker.readyRefs = ReadyRefs

\* C8 witness: of two Ready connections one moved to TransientFailure; the
\* published state is Ready and the ready set holds the other one alone.
C8_Witness ==
    /\ lastOp.op = "HandleSubConnStateChange"
    /\ lastOp.oldS = Ready
    /\ lastOp.s = TransientFailure
    /\ Published(calls) # {}
    /\ \A i \in Published(calls) :
          /\ calls[i].state = Ready
          /\ Cardinality(calls[i].picker.readyRefs) = 1
          /\ lastOp.sc \notin calls[i].picker.readyRefs

\* C9: an address resolution without error on an empty pool, with
\* cc.NewSubConn succeeding, stores the addresses and creates one connection:
\* one subConnRef with zero counts, recorded Idle, and asked to connect once
\* it is in scRefs.
C9_FirstResolveCreatesOne ==
    [][(/\ lastOp'.op = "HandleResolvedAddrs"
        /\ ~lastOp'.err
        /\ lastOp'.ok
        /\ DOMAIN scRefs = {}) =>
          /\ addrs' = lastOp'.addrs
          /\ nextSc' = nextSc + 1
          /\ DOMAIN scRefs' = {nextSc}
          /\ DOMAIN scStates' = {nextSc}
          /\ scStates'[nextSc] = Idle
          /\ scRefs'[nextSc] \in DOMAIN refs' \ DOMAIN refs
          /\ refs'[scRefs'[nextSc]] =
                [subConn |-> nextSc, affinityCnt |-> 0, streamsCnt |-> 0]
          /\ Len(calls') = 2
          /\ calls'[1].fn = "NewSubConn"
          /\ calls'[2].fn = "Connect"
          /\ calls'[2].sc = nextSc
          /\ calls'[2].tracked]_vars

\* C9 witness: a pool emptied by a Shutdown got its second connection from an
\* address resolution.
C9_Witness ==
    /\ lastOp.op = "HandleResolvedAddrs"
    /\ ~lastOp.err
    /\ lastOp.ok
    /\ nextSc = 3
    /\ Cardinality(DOMAIN scRefs) = 1
    /\ Len(calls) = 2
    /\ calls[1].fn = "NewSubConn"

\* C10: an address resolution with an error changes nothing and calls nothing.
C10_ErrorChangesNothing ==
    [][(lastOp'.op = "HandleResolvedAddrs" /\ lastOp'.err) =>
          /\ addrs' = addrs
          /\ scRefs' = scRefs
          /\ scStates' = scStates
          /\ affinityMap' = affinityMap
          /\ state' = state
          /\ picker' = picker
          /\ refs' = refs
          /\ nextSc' = nextSc
          /\ csEvltr' = csEvltr
          /\ calls' = <<>>]_vars

\* C10 witness: a resolution error carrying other addresses reached a pool
\* that holds a connection, and no call was made.
C10_Witness ==
    /\ lastOp.op = "HandleResolvedAddrs"
    /\ lastOp.err
    /\ lastOp.addrs # addrs
    /\ addrs # NilAddrs
    /\ DOMAIN scRefs # {}
    /\ calls = <<>>

\* C11: a state change for a handle that is not tracked changes neither
\* scStates, scRefs, affinityMap, the evaluator, gb.state nor gb.picker, and
\* makes no call into the host runtime.
C11_UnknownHandleIgnored ==
    [][(lastOp'.op = "HandleSubConnStateChange" /\ lastOp'.sc \notin DOMAIN scStates) =>
          /\ scStates' = scStates
          /\ scRefs' = scRefs
          /\ affinityMap' = affinityMap
          /\ refs' = refs
          /\ csEvltr' = csEvltr
          /\ state' = state
          /\ picker' = picker
          /\ lastPub' = lastPub
          /\ calls' = <<>>]_vars

\* C11 witness: an Idle notification came for a handle removed after
\* Shutdown while another connection is tracked, and no call was made.
C11_Witness ==
    /\ lastOp.op = "HandleSubConnStateChange"
    /\ ~lastOp.known
    /\ lastOp.s = Idle
    /\ lastOp.sc \in DOMAIN refs
    /\ lastOp.sc \notin DOMAIN scStates
    /\ DOMAIN scStates # {}
    /\ calls = <<>>

\* C15: no call into the host runtime is made while gb.mu is held.
C15_NoHostCallUnderLock == \A i \in DOMAIN calls : ~calls[i].locked

\* C18: once a snapshot has been published, the snapshot published last
\* carries gb.state, and its picker is the transient-failure picker when that
\* state is TransientFailure and otherwise has the subConnRefs of the
\* connections tracked as Ready for its ready set.
C18_LastSnapshotIsCurrent ==
    lastPub # NoSnapshot =>
        /\ lastPub.state = state
        /\ lastPub.picker = picker
        /\ IF state = TransientFailure
           THEN /\ lastPub.picker.kind = "errPicker"
                /\ lastPub.picker.err = "ErrTransientFailure"
           ELSE /\ lastPub.picker.kind = "gcpPicker"
                /\ lastPub.picker.readyRefs = ReadyRefs

\* C18 witness: the last handler was a state change that published nothing,
\* after an earlier snapshot, with one connection Ready and another not.
C18_Witness ==
    /\ lastOp.op = "HandleSubConnStateChange"
    /\ lastOp.known
    /\ Published(calls) = {}
    /\ lastPub # NoSnapshot
    /\ lastPub.state = Ready
    /\ TrackedIn(Ready) # {}
    /\ TrackedIn(Connecting) # {}

\* C20: a state change of a tracked connection asks that connection to
\* connect, once, exactly when the new state is Idle, and asks no other
\* connection.
C20_ConnectIffIdle ==
    [][(lastOp'.op = "HandleSubConnStateChange" /\ lastOp'.sc \in DOMAIN scStates) =>
          LET connects == {i \in DOMAIN calls' : calls'[i].fn = "Connect"}
          IN  /\ (lastOp'.s = Idle) <=> (connects # {})
              /\ Cardinality(connects) <= 1
              /\ \A i \in connects : calls'[i].sc = lastOp'.sc]_vars

\* C20 witness: a Ready connection was reported Idle and was asked to
\* connect, before the snapshot without it was published.
C20_Witness ==
    /\ lastOp.op = "HandleSubConnStateChange"
    /\ lastOp.known
    /\ lastOp.oldS = Ready
    /\ lastOp.s = Idle
    /\ Len(calls) = 2
    /\ calls[1].fn = "Connect"
    /\ calls[1].sc = lastOp.sc
    /\ calls[2].fn = "UpdateBalancerState"

\* C12: getReadySubConnRef(key) changes nothing; it returns (nil, false)
\* iff the key is not in affinityMap, (nil, true) iff the key is bound and
\* its connection is not tracked as Ready (a connection removed after
\* Shutdown included), and (the connection's subConnRef, true) iff the key is
\* bound and its connection is tracked as Ready.
C12_LookupResult ==
    [][lastOp'.op = "getReadySubConnRef" =>
          LET k == lastOp'.key
              bound == k \in DOMAIN affinityMap
              ready == /\ bound
                       /\ affinityMap[k] \in DOMAIN scStates
                       /\ scStates[affinityMap[k]] = Ready
          IN  /\ UNCHANGED <<addrs, csEvltr, state, affinityMap, scStates, scRefs,
                             picker, refs, nextSc, openStreams, panicked, lastPub>>
              /\ calls' = <<>>
              /\ (lastOp'.ref = NilRef /\ ~lastOp'.found) <=> ~bound
              /\ (lastOp'.ref = NilRef /\ lastOp'.found) <=> (bound /\ ~ready)
              /\ (lastOp'.ref # NilRef /\ lastOp'.found) <=> ready
              /\ ready => /\ lastOp'.ref = scRefs[affinityMap[k]]
                          /\ refs[lastOp'.ref].subConn = affinityMap[k]]_vars

\* C12 witness: a key bound to a connection that was removed after Shutdown
\* was looked up and (nil, true) came back.
C12_Witness ==
    /\ lastOp.op = "getReadySubConnRef"
    /\ lastOp.found
    /\ lastOp.ref = NilRef
    /\ lastOp.key \in DOMAIN affinityMap
    /\ affinityMap[lastOp.key] \notin DOMAIN scStates

C14_NeverPanics == ~panicked

\* C19: a Shutdown notification of a tracked SubConn removes it from scStates
\* and from scRefs, leaves the entries of every other SubConn, the affinityMap
\* and the subConnRefs as they were, and takes one off the evaluator counter
\* of the state the SubConn was in
C19_ShutdownFrame ==
    [][(/\ lastOp'.op = "HandleSubConnStateChange"
        /\ lastOp'.s = Shutdown
        /\ lastOp'.sc \in DOMAIN scStates) =>
            LET sc == lastOp'.sc
                oldS == scStates[sc]
                Less(n, st) == IF oldS = st THEN U64Sub(n, U64(1)) ELSE n
            IN  /\ DOMAIN scStates' = DOMAIN scStates \ {sc}
                /\ DOMAIN scRefs' = DOMAIN scRefs \ {sc}
                /\ \A o \in DOMAIN scStates' : scStates'[o] = scStates[o]
                /\ \A o \in DOMAIN scRefs' : scRefs'[o] = scRefs[o]
                /\ UNCHANGED <<affinityMap, refs, panicked>>
                /\ csEvltr'.numReady = Less(csEvltr.numReady, Ready)
                /\ csEvltr'.numConnecting = Less(csEvltr.numConnecting, Connecting)
                /\ csEvltr'.numTransientFailure =
                       Less(csEvltr.numTransientFailure, TransientFailure)]_vars

\* a Ready SubConn with a key bound to it was just shut down while another
\* SubConn is tracked: the key still points at the removed SubConn
C19_Witness ==
    /\ lastOp.op = "HandleSubConnStateChange"
    /\ lastOp.s = Shutdown
    /\ lastOp.known
    /\ lastOp.oldS = Ready
    /\ lastOp.sc \notin DOMAIN scStates
    /\ \E k \in DOMAIN affinityMap : affinityMap[k] = lastOp.sc
    /\ \E o \in DOMAIN scStates : o # lastOp.sc /\ o \in DOMAIN scRefs

\* C16: every state handed to the host runtime comes with the picker made
\* for it: the error picker with TransientFailure, a picker over the Ready
\* SubConns with any other state
C16_PublishedPairConsistent ==
    \A i \in DOMAIN calls :
        calls[i].fn = "UpdateBalancerState" =>
            (calls[i].state = TransientFailure <=> calls[i].picker.kind = "errPicker")

\* C17: two goroutines that have each handled one address resolution without
\* error, on a pool that held no SubConn and with cc.NewSubConn succeeding,
\* have created one SubConn between them
C17_OneConnectionCreated ==
    LET ran == {t \in Threads : threads[t].n > 0}
    IN  (/\ Cardinality(ran) = 2
         /\ \A t \in Threads : threads[t].pc = "idle"
         /\ \A t \in ran : /\ threads[t].n = 1
                           /\ threads[t].op = "HandleResolvedAddrs"
                           /\ ~threads[t].err
                           /\ threads[t].ok)
        => nextSc - 1 = 1

====
